---- MODULE Spec2Model ----
(***************************************************************************)
(* Model of scripts/convert_gemma_to_tflite.py: the command line parsed by *)
(* main(), and convert_model_to_tflite() as the sequence of console        *)
(* messages, calls to the model hub, the exporter, the converter and the   *)
(* filesystem it performs.  Paths are sequences of one-character strings,  *)
(* so that os.path.splitext is computed character by character.  Two       *)
(* operating-system processes may run the script against one filesystem.   *)
(***************************************************************************)
EXTENDS Integers, Sequences, FiniteSets

(***************************************************************************)
(* Bounds of the model.                                                    *)
(***************************************************************************)
\* longest output path enumerated by InitPath
MaxLen == 5
\* how many times one process slot launches the script
MaxRuns == 2

Procs == {1, 2}

\* characters the enumerated output paths are made of
Alphabet == {"a", ".", "/"}

(***************************************************************************)
(* String constants of the script, as character sequences.                 *)
(***************************************************************************)
VocabSuffix == <<"_", "v", "o", "c", "a", "b", ".", "j", "s", "o", "n">>

SavedModelSuffix == <<"_", "s", "a", "v", "e", "d", "_", "m", "o", "d", "e", "l">>

DefaultModel == "google/gemma-3b-4b-it"

DefaultOutput ==
    <<"g", "e", "m", "m", "a", "-", "3", "b", "-", "4", "b", "-", "i", "t",
      ".", "t", "f", "l", "i", "t", "e">>

\* the arguments of the end-to-end scenario
TestModel == "test/model"

ExampleOutput ==
    <<"o", "u", "t", "/", "m", "o", "d", "e", "l", ".", "t", "f", "l", "i", "t", "e">>

NoExtOutput == <<"o", ".", "d", "/", "m">>

(***************************************************************************)
(* os.path.splitext (posixpath: sep "/", no altsep, extsep ".").           *)
(* Indices are 1-based, 0 standing for rfind's -1.                         *)
(***************************************************************************)
RFind(p, c) ==
    IF \E i \in 1..Len(p) : p[i] = c
    THEN CHOOSE i \in 1..Len(p) : p[i] = c /\ \A j \in (i + 1)..Len(p) : p[j] # c
    ELSE 0

\* the loop that skips the leading dots of the final component: TRUE when a
\* character other than "." stands between the separator and the last dot
RECURSIVE ScanLeadingDots(_, _, _)
ScanLeadingDots(p, filenameIndex, dotIndex) ==
    IF filenameIndex < dotIndex
    THEN IF p[filenameIndex] # "."
         THEN TRUE
         ELSE ScanLeadingDots(p, filenameIndex + 1, dotIndex)
    ELSE FALSE

\* the mutant splits at the first dot of the path
splitext_first_dot(p) ==
    IF \E i \in 1..Len(p) : p[i] = "."
    THEN LET d == CHOOSE i \in 1..Len(p) : p[i] = "." /\ \A j \in 1..(i - 1) : p[j] # "."
         IN  <<SubSeq(p, 1, d - 1), SubSeq(p, d, Len(p))>>
    ELSE <<p, <<>>>>

\* the mutant does not skip leading dots
splitext_no_skip(p) ==
    LET sepIndex == RFind(p, "/")
        dotIndex == RFind(p, ".")
    IN  IF dotIndex > sepIndex
        THEN <<SubSeq(p, 1, dotIndex - 1), SubSeq(p, dotIndex, Len(p))>>
        ELSE <<p, <<>>>>

splitext(p) ==
    LET sepIndex == RFind(p, "/")
        dotIndex == RFind(p, ".")
    IN  IF dotIndex > sepIndex /\ ScanLeadingDots(p, sepIndex + 1, dotIndex)
        THEN <<SubSeq(p, 1, dotIndex - 1), SubSeq(p, dotIndex, Len(p))>>
        ELSE <<p, <<>>>>

\* line 27
VocabFile(output_file) == splitext(output_file)[1] \o VocabSuffix

\* line 57
SavedModelPath(output_file) == splitext(output_file)[1] \o SavedModelSuffix

(***************************************************************************)
(* The command line.  An argv is a record of the three options as given:   *)
(* model and output are <<>> when the option is absent and <<value>> when  *)
(* it is present; no_quantize tells whether --no-quantize is present.      *)
(***************************************************************************)
\* the mutant declares the flag store_true
ParseArgsStoreTrue(argv) ==
    [model    |-> IF argv.model = <<>> THEN DefaultModel ELSE argv.model[1],
     output   |-> IF argv.output = <<>> THEN DefaultOutput ELSE argv.output[1],
     quantize |-> argv.no_quantize]

ParseArgs(argv) ==
    [model    |-> IF argv.model = <<>> THEN DefaultModel ELSE argv.model[1],
     output   |-> IF argv.output = <<>> THEN DefaultOutput ELSE argv.output[1],
     quantize |-> ~argv.no_quantize]

(***************************************************************************)
(* State.                                                                  *)
(*   argv       the command line each process slot is launched with        *)
(*   budget     launches the slot has left                                 *)
(*   run        number of the slot's current launch                        *)
(*   status     "idle", "running", "done" (returned) or "failed" (an       *)
(*              exception left main)                                       *)
(*   pc         the statement the run is at, or failed at                  *)
(*   args       the parsed arguments: model_name, output_file, quantize    *)
(*   vocab_file, saved_model_path, converter, tflite_model                 *)
(*              the locals of convert_model_to_tflite                      *)
(*   events     what the current run printed and called, in order          *)
(*   fs         the filesystem: path |-> content of what exists            *)
(*   touched    the paths the current run created, changed or removed      *)
(*   returned   how many launches of the slot returned from main           *)
(***************************************************************************)
VARIABLES argv, budget, run, status, pc, args, vocab_file, saved_model_path,
          converter, tflite_model, events, fs, touched, returned

vars == <<argv, budget, run, status, pc, args, vocab_file, saved_model_path,
          converter, tflite_model, events, fs, touched, returned>>

\* the value of a local that is not bound yet
Unbound == <<>>

\* a converter as TFLiteConverter.from_saved_model returns it
NewConverter(src) == [source |-> src, optimizations |-> "unset", supported_types |-> "unset"]

\* the mutant leaves out line 68
QuantizedOptimizationsOnly(c) == [c EXCEPT !.optimizations = "DEFAULT"]

\* lines 67-68
Quantized(c) == [c EXCEPT !.optimizations = "DEFAULT", !.supported_types = "float16"]

Printed(text, arg) == <<"print", text, arg>>

Call(op, arg) == <<"call", op, arg>>

\* the mutant exports the saved model before the vocabulary
StepsExportFirst ==
    <<"load_model", "load_tokenizer", "export", "save_vocabulary",
      "from_saved_model", "convert", "write">>

\* the statements of convert_model_to_tflite that call a collaborator, in
\* the order of the text
Steps ==
    <<"load_model", "load_tokenizer", "save_vocabulary", "export",
      "from_saved_model", "convert", "write">>

StepIndex(step) == CHOOSE i \in 1..Len(Steps) : Steps[i] = step

\* the statement that follows step when step returns
NextStep(step) ==
    IF StepIndex(step) < Len(Steps) THEN Steps[StepIndex(step) + 1] ELSE "return"

\* the mutant prints nothing ahead of tf.saved_model.save
ProgressBeforeNoExport(step, a) ==
    CASE step = "load_model" -> <<Printed("Loading model", <<a.model>>)>>
      [] step = "from_saved_model" ->
             <<Printed("Converting SavedModel to TensorFlow Lite...", <<>>)>>
      [] step = "convert" /\ a.quantize -> <<Printed("Applying quantization...", <<>>)>>
      [] OTHER -> <<>>

\* what is printed between the previous collaborator call and the call of
\* step (lines 20, 30, 60, 66)
ProgressBefore(step, a) ==
    CASE step = "load_model" -> <<Printed("Loading model", <<a.model>>)>>
      [] step = "export" -> <<Printed("Converting model to TensorFlow format...", <<>>)>>
      [] step = "from_saved_model" ->
             <<Printed("Converting SavedModel to TensorFlow Lite...", <<>>)>>
      [] step = "convert" /\ a.quantize -> <<Printed("Applying quantization...", <<>>)>>
      [] OTHER -> <<>>

\* lines 76-77
ProgressAfterWrite(output_file, vocab) ==
    <<Printed("Model converted and saved to", output_file),
      Printed("Vocabulary saved to", vocab)>>

(***************************************************************************)
(* The filesystem.                                                         *)
(***************************************************************************)
\* what a path holds: its kind, the model it was made from, the converter
\* settings it was made with, the run whose saved model it was made from and
\* the run that wrote it (a run is <<process, launch number>>)
Content(type, model, optimizations, supported_types, source, by) ==
    [type |-> type, model |-> model, optimizations |-> optimizations,
     supported_types |-> supported_types, source |-> source, by |-> by]

\* what a step that raised while writing leaves at the path
Partial(by) == Content("partial", "", "unset", "unset", by, by)

EmptyFS == [x \in {} |-> Partial(<<0, 0>>)]

Put(f, path, c) == [x \in (DOMAIN f) \cup {path} |-> IF x = path THEN c ELSE f[x]]

\* the paths at which filesystems f and g differ
Changed(f, g) ==
    {x \in (DOMAIN f) \cup (DOMAIN g) :
        \/ x \notin DOMAIN f
        \/ x \notin DOMAIN g
        \/ f[x] # g[x]}

Remove(f, paths) == [x \in (DOMAIN f) \ paths |-> f[x]]

\* the mutant opens the output file for exclusive creation
OpenModeExclusive == "xb"

\* line 73
OpenMode == "wb"

\* whether open(path, OpenMode) can succeed on filesystem f
CanOpen(f, path) ==
    /\ Len(path) > 0
    /\ path[Len(path)] # "/"
    /\ (OpenMode = "xb" => path \notin DOMAIN f)

\* the mutant removes the artifacts of the output path when a step raises
CleanupOnFailure(f, output_file) ==
    Remove(f, {output_file, splitext(output_file)[1] \o VocabSuffix,
               splitext(output_file)[1] \o SavedModelSuffix})

\* no statement of the script catches an exception: the filesystem a
\* failing step leaves is the one the process exits with
OnFailure(f, output_file) == f

\* the mutant removes the intermediate directory once the output is written
RemoveSavedModelOnReturn(f, saved_model) == Remove(f, {saved_model})

\* lines 73-77: nothing is removed before the function returns
OnReturn(f, saved_model) == f

\* the mutant takes a lock on the output path: a launch waits while another
\* run is working on the same output path
CanLaunchLocked(p) ==
    /\ status[p] # "running"
    /\ budget[p] > 0
    /\ \A q \in Procs \ {p} :
           ~(status[q] = "running" /\ args[q].output = ParseArgs(argv[p]).output)

\* lines 89-90: the script starts whenever it is launched
CanLaunch(p) ==
    /\ status[p] # "running"
    /\ budget[p] > 0

(***************************************************************************)
(* Initial states.                                                         *)
(***************************************************************************)
Argv(model, output, no_quantize) ==
    [model |-> model, output |-> output, no_quantize |-> no_quantize]

\* the command lines of the concurrent specification
ArgvChoices ==
    {Argv(<<>>, <<>>, FALSE),
     Argv(<<TestModel>>, <<ExampleOutput>>, FALSE),
     Argv(<<TestModel>>, <<ExampleOutput>>, TRUE),
     Argv(<<>>, <<NoExtOutput>>, TRUE)}

\* every path of at most n characters
Paths(n) == UNION {[1..k -> Alphabet] : k \in 0..n}

Unparsed == [model |-> "", output |-> <<>>, quantize |-> FALSE]

InitLocals ==
    /\ run = [p \in Procs |-> 0]
    /\ status = [p \in Procs |-> "idle"]
    /\ pc = [p \in Procs |-> "main"]
    /\ args = [p \in Procs |-> Unparsed]
    /\ vocab_file = [p \in Procs |-> Unbound]
    /\ saved_model_path = [p \in Procs |-> Unbound]
    /\ converter = [p \in Procs |-> NewConverter(Unbound)]
    /\ tflite_model = [p \in Procs |-> Unbound]
    /\ events = [p \in Procs |-> <<>>]
    /\ fs = EmptyFS
    /\ touched = [p \in Procs |-> {}]
    /\ returned = [p \in Procs |-> 0]

\* slot 1 is launched MaxRuns times in a row and slot 2 once, at any moment,
\* each with one of ArgvChoices
Init ==
    /\ argv \in [Procs -> ArgvChoices]
    /\ budget = [p \in Procs |-> IF p = 1 THEN MaxRuns ELSE 1]
    /\ InitLocals

\* one slot, launched MaxRuns times with any output path of at most MaxLen
\* characters
InitPath ==
    /\ \E o \in Paths(MaxLen), nq \in BOOLEAN :
           argv = [p \in Procs |-> IF p = 1 THEN Argv(<<TestModel>>, <<o>>, nq)
                                  ELSE Argv(<<>>, <<>>, FALSE)]
    /\ budget = [p \in Procs |-> IF p = 1 THEN MaxRuns ELSE 0]
    /\ InitLocals

(***************************************************************************)
(* Actions.                                                                *)
(***************************************************************************)
ThisRun(p) == <<p, run[p]>>

At(p, step) == status[p] = "running" /\ pc[p] = step

\* the events of step: its progress messages, then its call
Emit(p, step, op, arg) ==
    events[p] \o ProgressBefore(step, args[p]) \o <<Call(op, arg)>>

\* step returned
Return(p, step, ev) ==
    /\ pc' = [pc EXCEPT ![p] = NextStep(step)]
    /\ status' = [status EXCEPT ![p] = IF NextStep(step) = "return" THEN "done" ELSE "running"]
    /\ events' = [events EXCEPT ![p] = ev]
    /\ returned' = [returned EXCEPT ![p] = IF NextStep(step) = "return" THEN @ + 1 ELSE @]

\* step raised, leaving filesystem f: the exception leaves main
Raise(p, ev, f) ==
    /\ pc' = pc
    /\ status' = [status EXCEPT ![p] = "failed"]
    /\ events' = [events EXCEPT ![p] = ev]
    /\ fs' = OnFailure(f, args[p].output)
    /\ returned' = returned

\* lines 79-87 and 89-90: a launch of the script
Launch(p) ==
    /\ CanLaunch(p)
    /\ budget' = [budget EXCEPT ![p] = @ - 1]
    /\ run' = [run EXCEPT ![p] = @ + 1]
    /\ status' = [status EXCEPT ![p] = "running"]
    /\ pc' = [pc EXCEPT ![p] = Steps[1]]
    /\ args' = [args EXCEPT ![p] = ParseArgs(argv[p])]
    /\ vocab_file' = [vocab_file EXCEPT ![p] = Unbound]
    /\ saved_model_path' = [saved_model_path EXCEPT ![p] = Unbound]
    /\ converter' = [converter EXCEPT ![p] = NewConverter(Unbound)]
    /\ tflite_model' = [tflite_model EXCEPT ![p] = Unbound]
    /\ events' = [events EXCEPT ![p] = <<>>]
    /\ touched' = [touched EXCEPT ![p] = {}]
    /\ UNCHANGED <<argv, fs, returned>>

\* lines 20-23
LoadModel(p) ==
    /\ At(p, "load_model")
    /\ LET ev == Emit(p, "load_model", "AutoModelForCausalLM.from_pretrained",
                      <<args[p].model>>)
       IN  \/ Return(p, "load_model", ev) /\ fs' = fs
           \/ Raise(p, ev, fs)
    /\ UNCHANGED <<argv, budget, run, args, vocab_file, saved_model_path, converter,
                   tflite_model>>
    /\ touched' = [touched EXCEPT ![p] = @ \cup Changed(fs, fs')]

\* line 24
LoadTokenizer(p) ==
    /\ At(p, "load_tokenizer")
    /\ LET ev == Emit(p, "load_tokenizer", "AutoTokenizer.from_pretrained",
                      <<args[p].model>>)
       IN  \/ Return(p, "load_tokenizer", ev) /\ fs' = fs
           \/ Raise(p, ev, fs)
    /\ UNCHANGED <<argv, budget, run, args, vocab_file, saved_model_path, converter,
                   tflite_model>>
    /\ touched' = [touched EXCEPT ![p] = @ \cup Changed(fs, fs')]

\* lines 27-28
SaveVocabulary(p) ==
    /\ At(p, "save_vocabulary")
    /\ LET path == VocabFile(args[p].output)
           ev == Emit(p, "save_vocabulary", "save_vocabulary", path)
       IN  /\ vocab_file' = [vocab_file EXCEPT ![p] = path]
           /\ \/ /\ Return(p, "save_vocabulary", ev)
                 /\ fs' = Put(fs, path, Content("vocab", args[p].model, "unset", "unset",
                                                ThisRun(p), ThisRun(p)))
              \/ Raise(p, ev, fs)
              \/ Raise(p, ev, Put(fs, path, Partial(ThisRun(p))))
    /\ UNCHANGED <<argv, budget, run, args, saved_model_path, converter, tflite_model>>
    /\ touched' = [touched EXCEPT ![p] = @ \cup Changed(fs, fs')]

\* lines 30-58
Export(p) ==
    /\ At(p, "export")
    /\ LET path == SavedModelPath(args[p].output)
           ev == Emit(p, "export", "saved_model.save", path)
       IN  /\ saved_model_path' = [saved_model_path EXCEPT ![p] = path]
           /\ \/ /\ Return(p, "export", ev)
                 /\ fs' = Put(fs, path, Content("saved_model", args[p].model, "unset",
                                                "unset", ThisRun(p), ThisRun(p)))
              \/ Raise(p, ev, fs)
              \/ Raise(p, ev, Put(fs, path, Partial(ThisRun(p))))
    /\ UNCHANGED <<argv, budget, run, args, vocab_file, converter, tflite_model>>
    /\ touched' = [touched EXCEPT ![p] = @ \cup Changed(fs, fs')]

\* lines 60-63: the converter reads what the directory holds now
FromSavedModel(p) ==
    /\ At(p, "from_saved_model")
    /\ LET path == saved_model_path[p]
           ev == Emit(p, "from_saved_model", "from_saved_model", path)
       IN  \/ /\ path \in DOMAIN fs
              /\ fs[path].type = "saved_model"
              /\ Return(p, "from_saved_model", ev)
              /\ converter' = [converter EXCEPT ![p] = NewConverter(fs[path])]
              /\ fs' = fs
           \/ Raise(p, ev, fs) /\ converter' = converter
    /\ UNCHANGED <<argv, budget, run, args, vocab_file, saved_model_path, tflite_model>>
    /\ touched' = [touched EXCEPT ![p] = @ \cup Changed(fs, fs')]

\* lines 65-70
Convert(p) ==
    /\ At(p, "convert")
    /\ LET c == IF args[p].quantize THEN Quantized(converter[p]) ELSE converter[p]
           ev == Emit(p, "convert", "convert", <<c.optimizations, c.supported_types>>)
       IN  /\ converter' = [converter EXCEPT ![p] = c]
           /\ \/ /\ Return(p, "convert", ev)
                 /\ tflite_model' = [tflite_model EXCEPT ![p] = <<c>>]
                 /\ fs' = fs
              \/ Raise(p, ev, fs) /\ tflite_model' = tflite_model
    /\ UNCHANGED <<argv, budget, run, args, vocab_file, saved_model_path>>
    /\ touched' = [touched EXCEPT ![p] = @ \cup Changed(fs, fs')]

\* lines 73-77: open and write succeed
WriteReturns(p) ==
    /\ At(p, "write")
    /\ LET path == args[p].output
           ev == Emit(p, "write", "write", path)
           c == tflite_model[p][1]
       IN  /\ CanOpen(fs, path)
           /\ Return(p, "write", ev \o ProgressAfterWrite(path, vocab_file[p]))
           /\ fs' = OnReturn(Put(fs, path, Content("tflite", c.source.model,
                                                   c.optimizations, c.supported_types,
                                                   c.source.by, ThisRun(p))),
                             saved_model_path[p])
    /\ UNCHANGED <<argv, budget, run, args, vocab_file, saved_model_path, converter,
                   tflite_model>>
    /\ touched' = [touched EXCEPT ![p] = @ \cup Changed(fs, fs')]

\* line 73: open raises
OpenRaises(p) ==
    /\ At(p, "write")
    /\ Raise(p, Emit(p, "write", "write", args[p].output), fs)
    /\ UNCHANGED <<argv, budget, run, args, vocab_file, saved_model_path, converter,
                   tflite_model>>
    /\ touched' = [touched EXCEPT ![p] = @ \cup Changed(fs, fs')]

\* line 74: write raises, the file is open and truncated
WriteRaises(p) ==
    /\ At(p, "write")
    /\ CanOpen(fs, args[p].output)
    /\ Raise(p, Emit(p, "write", "write", args[p].output),
             Put(fs, args[p].output, Partial(ThisRun(p))))
    /\ UNCHANGED <<argv, budget, run, args, vocab_file, saved_model_path, converter,
                   tflite_model>>
    /\ touched' = [touched EXCEPT ![p] = @ \cup Changed(fs, fs')]

Write(p) == WriteReturns(p) \/ OpenRaises(p) \/ WriteRaises(p)

Next ==
    \E p \in Procs :
        \/ Launch(p)
        \/ LoadModel(p)
        \/ LoadTokenizer(p)
        \/ SaveVocabulary(p)
        \/ Export(p)
        \/ FromSavedModel(p)
        \/ Convert(p)
        \/ Write(p)

Spec == Init /\ [][Next]_vars

SpecPath == InitPath /\ [][Next]_vars

(***************************************************************************)
(* Vocabulary of the properties.                                           *)
(***************************************************************************)
\* the calls among events ev, in order
Calls(ev) == SelectSeq(ev, LAMBDA e : e[1] = "call")

\* the arguments of the calls of op among events ev
ArgsOf(ev, op) == {ev[i][3] : i \in {j \in DOMAIN ev : ev[j][1] = "call" /\ ev[j][2] = op}}

Max(S) == CHOOSE x \in S : \A y \in S : y <= x

\* where the final component of path P starts
FinalStart(P) == Max({0} \cup {i \in 1..Len(P) : P[i] = "/"}) + 1

\* the positions of the dots of the final component of P
FinalDots(P) == {i \in FinalStart(P)..Len(P) : P[i] = "."}

\* P ends in an extension: a dot of the final component has a character
\* other than a dot before it in that component
HasExtension(P) ==
    \E i \in FinalDots(P) : \E j \in FinalStart(P)..(i - 1) : P[j] # "."

\* the final component of P has no dot, or its only dot is its first character
NoExtension(P) == FinalDots(P) = {} \/ FinalDots(P) = {FinalStart(P)}

\* P with its last extension replaced by X
WithExtensionReplaced(P, X) == SubSeq(P, 1, Max(FinalDots(P)) - 1) \o X

Started(p) == status[p] # "idle"

\* C2: whenever the output path ends in an extension, the path given to
\* save_vocabulary is the output path with its last extension replaced by
\* "_vocab.json" and the directory given to saved_model.save is the output
\* path with its last extension replaced by "_saved_model".
C2_DerivedPathsReplaceExtension ==
    \A p \in Procs :
        (Started(p) /\ HasExtension(args[p].output)) =>
            /\ \A a \in ArgsOf(events[p], "save_vocabulary") :
                   a = WithExtensionReplaced(args[p].output, VocabSuffix)
            /\ \A a \in ArgsOf(events[p], "saved_model.save") :
                   a = WithExtensionReplaced(args[p].output, SavedModelSuffix)

\* a run with an output path whose final component holds two dots has called
\* both save_vocabulary and saved_model.save
C2_Witness ==
    \E p \in Procs :
        /\ Started(p)
        /\ HasExtension(args[p].output)
        /\ Cardinality(FinalDots(args[p].output)) >= 2
        /\ args[p].output[Len(args[p].output)] # "."
        /\ args[p].output[FinalStart(args[p].output)] # "."
        /\ ArgsOf(events[p], "save_vocabulary") # {}
        /\ ArgsOf(events[p], "saved_model.save") # {}

\* C3: whenever the final component of the output path has no extension,
\* the path given to save_vocabulary is the whole output path followed by
\* "_vocab.json" and the directory given to saved_model.save is the whole
\* output path followed by "_saved_model".
C3_NoExtensionKeepsWholePath ==
    \A p \in Procs :
        (Started(p) /\ NoExtension(args[p].output)) =>
            /\ \A a \in ArgsOf(events[p], "save_vocabulary") :
                   a = args[p].output \o VocabSuffix
            /\ \A a \in ArgsOf(events[p], "saved_model.save") :
                   a = args[p].output \o SavedModelSuffix

\* a run whose output path has a dot in a directory component and a final
\* component whose only dot is its first character has called both
C3_Witness ==
    \E p \in Procs :
        /\ Started(p)
        /\ FinalDots(args[p].output) = {FinalStart(args[p].output)}
        /\ \E i \in 1..(FinalStart(args[p].output) - 1) : args[p].output[i] = "."
        /\ Len(args[p].output) > FinalStart(args[p].output)
        /\ ArgsOf(events[p], "save_vocabulary") # {}
        /\ ArgsOf(events[p], "saved_model.save") # {}

\* the calls convert_model_to_tflite makes with arguments a when no step
\* raises, statement by statement
SourceCalls(a, stem) ==
    <<Call("AutoModelForCausalLM.from_pretrained", <<a.model>>),
      Call("AutoTokenizer.from_pretrained", <<a.model>>),
      Call("save_vocabulary", stem \o VocabSuffix),
      Call("saved_model.save", stem \o SavedModelSuffix),
      Call("from_saved_model", stem \o SavedModelSuffix),
      Call("convert", IF a.quantize THEN <<"DEFAULT", "float16">> ELSE <<"unset", "unset">>),
      Call("write", a.output)>>

\* the quantize argument a converter configuration stands for
QuantizeOf(settings) ==
    IF settings = <<"DEFAULT", "float16">> THEN "quantize=True"
    ELSE IF settings = <<"unset", "unset">> THEN "quantize=False"
    ELSE "quantize=partly"

\* a call as a call to one of the five collaborators of the scenario
AsCollaborator(c) ==
    CASE c[2] = "AutoModelForCausalLM.from_pretrained" -> <<"fetch", c[3]>>
      [] c[2] = "save_vocabulary" -> <<"save_vocab", c[3]>>
      [] c[2] = "saved_model.save" -> <<"export", c[3]>>
      [] c[2] = "convert" -> <<"convert", <<QuantizeOf(c[3])>>>>
      [] c[2] = "write" -> <<"write", c[3]>>

\* the calls of events ev as calls to the five collaborators: the tokenizer
\* load belongs to the fetch and from_saved_model to the convert
CollaboratorCalls(ev) ==
    LET own == SelectSeq(Calls(ev), LAMBDA c : c[2] \notin {"AutoTokenizer.from_pretrained",
                                                            "from_saved_model"})
    IN  [i \in 1..Len(own) |-> AsCollaborator(own[i])]

ExampleVocab ==
    <<"o", "u", "t", "/", "m", "o", "d", "e", "l",
      "_", "v", "o", "c", "a", "b", ".", "j", "s", "o", "n">>

ExampleSavedModel ==
    <<"o", "u", "t", "/", "m", "o", "d", "e", "l",
      "_", "s", "a", "v", "e", "d", "_", "m", "o", "d", "e", "l">>

IsExample(p) ==
    argv[p] = Argv(<<TestModel>>, <<ExampleOutput>>, FALSE)

\* C1 as stated: a run that returned called fetch(model), save_vocab(stem +
\* "_vocab.json"), export(stem + "_saved_model/"), convert(quantize) and
\* write(output), once each and in this order; for the example command line
\* the export directory is "out/model_saved_model/".
C1_AsStated ==
    \A p \in Procs :
        status[p] = "done" =>
            LET stem == splitext(args[p].output)[1]
            IN  /\ CollaboratorCalls(events[p]) =
                       <<<<"fetch", <<args[p].model>>>>,
                         <<"save_vocab", stem \o VocabSuffix>>,
                         <<"export", stem \o SavedModelSuffix \o <<"/">>>>,
                         <<"convert", <<IF args[p].quantize THEN "quantize=True"
                                        ELSE "quantize=False">>>>,
                         <<"write", args[p].output>>>>
                /\ IsExample(p) =>
                       CollaboratorCalls(events[p]) =
                           <<<<"fetch", <<"test/model">>>>,
                             <<"save_vocab", ExampleVocab>>,
                             <<"export", ExampleSavedModel \o <<"/">>>>,
                             <<"convert", <<"quantize=True">>>>,
                             <<"write", ExampleOutput>>>>

\* C1 as amended: the calls of a run are at every moment a prefix of
\* model load, tokenizer load, save_vocabulary(stem + "_vocab.json"),
\* saved_model.save(stem + "_saved_model"), from_saved_model(the same
\* directory), convert, write(output), and all of it once the run returned;
\* the export directory has no trailing "/": "out/model_saved_model" for the
\* example command line.
C1_CallOrder ==
    \A p \in Procs :
        Started(p) =>
            LET stem == splitext(args[p].output)[1]
                all == SourceCalls(args[p], stem)
                made == Calls(events[p])
            IN  /\ Len(made) <= Len(all)
                /\ made = SubSeq(all, 1, Len(made))
                /\ status[p] = "done" =>
                       /\ made = all
                       /\ CollaboratorCalls(events[p]) =
                              <<<<"fetch", <<args[p].model>>>>,
                                <<"save_vocab", stem \o VocabSuffix>>,
                                <<"export", stem \o SavedModelSuffix>>,
                                <<"convert", <<IF args[p].quantize THEN "quantize=True"
                                               ELSE "quantize=False">>>>,
                                <<"write", args[p].output>>>>
                       /\ IsExample(p) =>
                              CollaboratorCalls(events[p]) =
                                  <<<<"fetch", <<"test/model">>>>,
                                    <<"save_vocab", ExampleVocab>>,
                                    <<"export", ExampleSavedModel>>,
                                    <<"convert", <<"quantize=True">>>>,
                                    <<"write", ExampleOutput>>>>

\* the run of the example command line returned
C1_Witness ==
    \E p \in Procs : IsExample(p) /\ status[p] = "done"

\* C4: every call of convert() is made with both settings as the converter
\* was created with them when the command line holds --no-quantize, and with
\* optimizations = [DEFAULT] and supported types = [float16] when it does
\* not; never with one of the two settings alone.
C4_QuantizeFlagSetsBothOrNone ==
    \A p \in Procs :
        Started(p) =>
            \A a \in ArgsOf(events[p], "convert") :
                /\ argv[p].no_quantize =>
                       a = <<NewConverter(Unbound).optimizations,
                             NewConverter(Unbound).supported_types>>
                /\ ~argv[p].no_quantize => a = <<"DEFAULT", "float16">>
                /\ (a[1] = "DEFAULT") <=> (a[2] = "float16")

\* a run with --no-quantize and a run without it have both called convert()
C4_Witness ==
    \E p, q \in Procs :
        /\ argv[p].no_quantize
        /\ ~argv[q].no_quantize
        /\ ArgsOf(events[p], "convert") # {}
        /\ ArgsOf(events[q], "convert") # {}

\* the three paths a run with output path P works on
OutputPaths(P) ==
    {P, splitext(P)[1] \o VocabSuffix, splitext(P)[1] \o SavedModelSuffix}

FailedAt(p, steps) == status[p] = "failed" /\ pc[p] \in steps

\* a step of the run of p
StepOf(p) ==
    \/ LoadModel(p)
    \/ LoadTokenizer(p)
    \/ SaveVocabulary(p)
    \/ Export(p)
    \/ FromSavedModel(p)
    \/ Convert(p)
    \/ Write(p)

\* what the run of p writes at the vocabulary path and at the export directory
OwnVocab(p) ==
    Content("vocab", args[p].model, "unset", "unset", ThisRun(p), ThisRun(p))

OwnSavedModel(p) ==
    Content("saved_model", args[p].model, "unset", "unset", ThisRun(p), ThisRun(p))

\* C5: when the model load or the tokenizer load raised, the run has
\* created, changed or removed no path: it called neither save_vocabulary
\* nor saved_model.save nor write, and all that exists on the filesystem was
\* written by earlier runs.
C5_FetchFailureLeavesFilesystem ==
    \A p \in Procs :
        FailedAt(p, {"load_model", "load_tokenizer"}) =>
            /\ touched[p] = {}
            /\ \A x \in DOMAIN fs : fs[x].by[2] < run[p]
            /\ ArgsOf(events[p], "save_vocabulary") = {}
            /\ ArgsOf(events[p], "saved_model.save") = {}
            /\ ArgsOf(events[p], "write") = {}

\* the tokenizer load of a second run raised while the three artifacts of
\* the first run exist
C5_Witness ==
    \E p \in Procs :
        /\ FailedAt(p, {"load_tokenizer"})
        /\ run[p] = 2
        /\ OutputPaths(args[p].output) \subseteq DOMAIN fs

\* C6: when a step raised, the calls of the run are the calls up to that
\* step, each made once, the run takes no further step, the artifacts of the
\* steps before it are on disk as those steps wrote them, and no path of a
\* later step was touched.
C6_FailureEndsRunAndKeepsArtifacts ==
    \A p \in Procs :
        status[p] = "failed" =>
            LET k == StepIndex(pc[p])
                stem == splitext(args[p].output)[1]
                vocab == stem \o VocabSuffix
                saved == stem \o SavedModelSuffix
            IN  /\ Calls(events[p]) = SubSeq(SourceCalls(args[p], stem), 1, k)
                /\ ~ENABLED StepOf(p)
                /\ k > StepIndex("save_vocabulary") =>
                       vocab \in DOMAIN fs /\ fs[vocab] = OwnVocab(p)
                /\ k > StepIndex("export") =>
                       saved \in DOMAIN fs /\ fs[saved] = OwnSavedModel(p)
                /\ k < StepIndex("save_vocabulary") => vocab \notin touched[p]
                /\ k < StepIndex("export") => saved \notin touched[p]
                /\ k < StepIndex("write") => args[p].output \notin touched[p]

\* convert() raised in a first run: the vocabulary file and the saved-model
\* directory are there and the output file is not
C6_Witness ==
    \E p \in Procs :
        /\ FailedAt(p, {"convert"})
        /\ run[p] = 1
        /\ splitext(args[p].output)[1] \o VocabSuffix \in DOMAIN fs
        /\ splitext(args[p].output)[1] \o SavedModelSuffix \in DOMAIN fs
        /\ args[p].output \notin DOMAIN fs

\* an output path open() accepts: not empty and not naming a directory
Openable(P) == Len(P) > 0 /\ P[Len(P)] # "/"

\* C7: a run that returned leaves its own vocabulary file, saved-model
\* directory and output file at the three paths, whatever was there before,
\* and a run that reached the write step can complete although the output
\* file exists.
C7_RerunOverwrites ==
    \A p \in Procs :
        /\ status[p] = "done" =>
               LET stem == splitext(args[p].output)[1]
               IN  /\ OutputPaths(args[p].output) \subseteq DOMAIN fs
                   /\ fs[stem \o VocabSuffix] = OwnVocab(p)
                   /\ fs[stem \o SavedModelSuffix] = OwnSavedModel(p)
                   /\ fs[args[p].output].type = "tflite"
                   /\ fs[args[p].output].by = ThisRun(p)
                   /\ fs[args[p].output].source = ThisRun(p)
        /\ (At(p, "write") /\ Openable(args[p].output)) => ENABLED WriteReturns(p)

\* a second run returned after the first run had returned
C7_Witness ==
    \E p \in Procs : status[p] = "done" /\ run[p] = 2 /\ returned[p] = 2

\* C8: when a run returned, the output file, the vocabulary file and the
\* saved-model directory exist, and these three paths are all the run
\* created, changed or removed.
C8_ThreeArtifactsAndNothingElse ==
    \A p \in Procs :
        status[p] = "done" =>
            /\ OutputPaths(args[p].output) \subseteq DOMAIN fs
            /\ touched[p] = OutputPaths(args[p].output)
            /\ Cardinality(OutputPaths(args[p].output)) = 3

\* a run returned and its saved-model directory is still as it exported it
C8_Witness ==
    \E p \in Procs :
        /\ status[p] = "done"
        /\ splitext(args[p].output)[1] \o SavedModelSuffix \in DOMAIN fs
        /\ fs[splitext(args[p].output)[1] \o SavedModelSuffix] = OwnSavedModel(p)

\* C9: nothing serialises two runs: a slot that has a launch left can start
\* whatever the other slot is doing, also while the other run works on the
\* same output path.
C9_NothingSerialisesRuns ==
    \A p \in Procs :
        (status[p] # "running" /\ budget[p] > 0) => ENABLED Launch(p)

\* two runs with the same output path have both returned and the vocabulary
\* file on disk was written by one of them, the output file by the other
C9_Witness ==
    \E p, q \in Procs :
        /\ p # q
        /\ status[p] = "done"
        /\ status[q] = "done"
        /\ args[p].output = args[q].output
        /\ fs[VocabFile(args[p].output)].by = ThisRun(p)
        /\ fs[args[p].output].by = ThisRun(q)

\* the step of the pipeline a call belongs to
StepOfCall(op) ==
    CASE op \in {"AutoModelForCausalLM.from_pretrained", "AutoTokenizer.from_pretrained"} ->
             "fetch"
      [] op = "save_vocabulary" -> "vocabulary export"
      [] op = "saved_model.save" -> "export"
      [] op \in {"from_saved_model", "convert"} -> "convert"
      [] op = "write" -> "persist"

\* event i of ev is the first call of its step
Begins(ev, i) ==
    /\ ev[i][1] = "call"
    /\ \A j \in 1..(i - 1) :
           ev[j][1] = "call" => StepOfCall(ev[j][2]) # StepOfCall(ev[i][2])

\* a message was printed between the call before event i and event i
Announced(ev, i) ==
    \E j \in 1..(i - 1) :
        /\ ev[j][1] = "print"
        /\ \A k \in (j + 1)..(i - 1) : ev[k][1] # "call"

\* C10 as stated: every step of the pipeline (fetch, vocabulary export,
\* export, convert, persist) begins after a progress message printed for it.
C10_AsStated ==
    \A p \in Procs :
        \A i \in DOMAIN events[p] :
            Begins(events[p], i) => Announced(events[p], i)

\* C10 as amended: a progress message is printed before the fetch, the
\* export and the convert steps begin, and none before the vocabulary export
\* and the persist steps; the output file and the vocabulary file are
\* reported by the two messages that end a run that returned.
C10_MessagesBeforeFetchExportConvert ==
    \A p \in Procs :
        /\ \A i \in DOMAIN events[p] :
               Begins(events[p], i) =>
                   (Announced(events[p], i) <=>
                        StepOfCall(events[p][i][2]) \in {"fetch", "export", "convert"})
        /\ status[p] = "done" =>
               LET n == Len(events[p])
               IN  /\ n >= 3
                   /\ events[p][n - 2] = <<"call", "write", args[p].output>>
                   /\ events[p][n - 1] =
                          <<"print", "Model converted and saved to", args[p].output>>
                   /\ events[p][n] =
                          <<"print", "Vocabulary saved to",
                            splitext(args[p].output)[1] \o VocabSuffix>>

\* a run went through all five steps and returned
C10_Witness ==
    \E p \in Procs :
        /\ status[p] = "done"
        /\ {StepOfCall(c[2]) : c \in {events[p][i] : i \in
                {j \in DOMAIN events[p] : events[p][j][1] = "call"}}}
               = {"fetch", "vocabulary export", "export", "convert", "persist"}

====
